---- MODULE Spec2Model ----
(***************************************************************************)
(* A model of owls-parallel: the @parallelized call interceptor, the       *)
(* ParallelizedEnvironment state machine (run / _compute / capturing) and  *)
(* the parallelization backends (multiprocessing, IPython, batch).         *)
(*                                                                         *)
(* Spec         the environment driven by application code on its thread.  *)
(* TwoThreadSpec  two environments driven on two threads.                  *)
(* BackendSpec  a backend's start / prune driven directly by a caller that *)
(*              passes start all three of its arguments, with the units    *)
(*              running asynchronously.                                    *)
(* ReuseSpec    one backend instance serving two dispatch runs in a row.   *)
(***************************************************************************)
EXTENDS Integers, Sequences, FiniteSets, TLC

VARIABLES
    live,               \* the ParallelizedEnvironment objects constructed
    backend,            \* env -> its _backend
    captured,           \* env -> _captured
    computed,           \* env -> _computed
    jobs,               \* env -> _jobs  (key -> batcher -> function -> list)
    owls_parallelizer,  \* thread -> _thread_local.owls_parallelizer
    cacheCtx,           \* thread -> whether _get_cache() is not None
    store,              \* content of the persistent cache: args -> value
    counter,            \* testing.counter.value of the calling process
    fcalls,             \* number of times a wrapper invoked its target f
    ncalls,             \* number of wrapper calls made so far
    lastCall,           \* the most recent wrapper call and what it returned
    runLog,             \* env -> outcomes of its run() calls, in order
    exited,             \* env -> the body of its loop raised or broke out
    bk,                 \* the backend whose start / prune are driven directly
    units,              \* job id -> the unit start launched for it
    queue,              \* multiprocessing: self._queue, the notified job ids
    handles,            \* what the latest start returned (all_jobs)
    remaining,          \* the collection the caller passes to the next prune
    prune,              \* the prune call in progress, or where it stands
    lastPrune,          \* how the latest finished prune call ended
    executed,           \* args -> times a unit has called the target with them
    notified,           \* number of times the callback given to start was called
    starts,             \* number of start calls made
    given,              \* the job_specs the latest start call was given
    notifiedAt,         \* how many units had returned when the callback was last called
    prunes              \* number of prune calls made

envVars == <<live, backend, captured, computed, jobs, owls_parallelizer,
             cacheCtx, store, counter, fcalls, ncalls, lastCall, runLog,
             exited>>

backendVars == <<notifiedAt, given, bk, units, queue, handles, remaining, prune, lastPrune,
                 executed, notified, starts, prunes>>

vars == <<envVars, backendVars>>

-----------------------------------------------------------------------------
(* Bounds *)

MaxRuns == 4

MaxCalls == 3

MaxPrunes == 3

MaxSpecCalls == 2

-----------------------------------------------------------------------------
(* Values *)

None == "None"

Envs == {"E1", "E2"}

Threads == {"T1", "T2"}

\* every environment of the model is driven by the thread of the same number
ThreadOf(e) == IF e = "E1" THEN "T1" ELSE "T2"

BackendKinds == {None, "multiprocessing", "ipython", "batch"}

\* the argument tuples the application passes to computation(a, b)
Args == {<<1, 2>>, <<1, 4>>, <<3, 4>>}

NoKwargs == <<>>

Digit(d) ==
    CASE d = 0 -> "0" [] d = 1 -> "1" [] d = 2 -> "2" [] d = 3 -> "3"
      [] d = 4 -> "4" [] d = 5 -> "5" [] d = 6 -> "6" [] d = 7 -> "7"
      [] d = 8 -> "8" [] d = 9 -> "9"

RECURSIVE Repr(_)
\* repr of a non-negative int: its decimal digits
Repr(n) == IF n < 10 THEN Digit(n) ELSE Repr(n \div 10) \o Digit(n % 10)

\* testing/__init__.py: @parallelized(lambda a, b: 0, lambda a, b: a)
default_generator(args) == 0

mapper(args) == args[1]

\* the body of testing.computation: a + b
computation(args) == args[1] + args[2]

-----------------------------------------------------------------------------
(* The capture marker *)

\* a marker kept in one place for all threads
_get_parallelizerGlobal(t) == owls_parallelizer["T1"]

_get_parallelizer(t) == owls_parallelizer[t]

\* a setter that leaves the marker as it is
_set_parallelizerNoop(t, parallelizer) == UNCHANGED owls_parallelizer

_set_parallelizer(t, parallelizer) ==
    owls_parallelizer' = [owls_parallelizer EXCEPT ![t] = parallelizer]

-----------------------------------------------------------------------------
(* The job registry *)

\* the default batch executer's name, and the name the wrapper is known by
Batcher == "_batcher"

Wrapper == "computation"

EmptyDict == <<>>

\* d[k] of a defaultdict: the entry, or a fresh default when k is absent
Lookup(d, k, default) == IF k \in DOMAIN d THEN d[k] ELSE default

\* d with d[k] set to v
Assign(d, k, v) == [x \in DOMAIN d \cup {k} |-> IF x = k THEN v ELSE d[x]]

\* a registry that puts a new call at the front of its list
_recordAtFront(j, key, batcher, function, args, kwargs) ==
    LET byBatcher  == Lookup(j, key, EmptyDict)
        byFunction == Lookup(byBatcher, batcher, EmptyDict)
        calls      == Lookup(byFunction, function, <<>>)
    IN  Assign(j, key,
            Assign(byBatcher, batcher,
                Assign(byFunction, function, <<<<args, kwargs>>>> \o calls)))

\* a registry that files every call under one and the same key
_recordUnderOneKey(j, key, batcher, function, args, kwargs) ==
    LET byBatcher  == Lookup(j, "0", EmptyDict)
        byFunction == Lookup(byBatcher, batcher, EmptyDict)
        calls      == Lookup(byFunction, function, <<>>)
    IN  Assign(j, "0",
            Assign(byBatcher, batcher,
                Assign(byFunction, function, Append(calls, <<args, kwargs>>))))

\* self._jobs[key][batcher][function].append((args, kwargs))
_record(j, key, batcher, function, args, kwargs) ==
    LET byBatcher  == Lookup(j, key, EmptyDict)
        byFunction == Lookup(byBatcher, batcher, EmptyDict)
        calls      == Lookup(byFunction, function, <<>>)
    IN  Assign(j, key,
            Assign(byBatcher, batcher,
                Assign(byFunction, function, Append(calls, <<args, kwargs>>))))

RECURSIVE _dict_convert(_, _)
\* rebuilds the dictionary level by level; depth counts the defaultdict
\* levels above the lists, which are taken over as they are
_dict_convert(dictionary, depth) ==
    [k \in DOMAIN dictionary |->
        IF depth > 1 THEN _dict_convert(dictionary[k], depth - 1)
                     ELSE dictionary[k]]

\* the (key, call) pairs a registry holds, with multiplicity as a count
RegistryCount(j, key, args) ==
    IF key \in DOMAIN j /\ Batcher \in DOMAIN j[key]
          /\ Wrapper \in DOMAIN j[key][Batcher]
    THEN Cardinality({i \in 1..Len(j[key][Batcher][Wrapper]) :
                         j[key][Batcher][Wrapper][i] = <<args, NoKwargs>>})
    ELSE 0

RegistrySize(j) ==
    LET n(key) == IF Batcher \in DOMAIN j[key] /\ Wrapper \in DOMAIN j[key][Batcher]
                  THEN Len(j[key][Batcher][Wrapper]) ELSE 0
        RECURSIVE Sum(_)
        Sum(ks) == IF ks = {} THEN 0
                   ELSE LET k == CHOOSE x \in ks : TRUE IN n(k) + Sum(ks \ {k})
    IN  Sum(DOMAIN j)

-----------------------------------------------------------------------------
(* The call interceptor *)

\* wrapper, line 92: the call is intercepted when a parallelizer is set
NeverIntercepts(parallelizer) == FALSE

Intercepts(parallelizer) == parallelizer # None

\* f = persistently_cached(computation): whether the call is answered from
\* the persistent cache the thread is caching into
CacheHit(t, args) == cacheCtx[t] /\ args \in DOMAIN store

\* the value f(*args) returns
TargetValue(t, args) == IF CacheHit(t, args) THEN store[args] ELSE computation(args)

\* wrapper, line 93: return f(*args, **kwargs)
TransparentAsDefault(t, args) == default_generator(args)

TransparentReturn(t, args) == TargetValue(t, args)

\* wrapper, line 105: return default_generator(*args, **kwargs)
CaptureReturn(args) == default_generator(args)

wrapper(t, args) ==
    /\ ncalls < MaxCalls
    /\ ncalls' = ncalls + 1
    /\ LET parallelizer == _get_parallelizer(t) IN
       IF ~Intercepts(parallelizer)
       THEN /\ fcalls' = fcalls + 1
            /\ counter' = IF CacheHit(t, args) THEN counter ELSE counter + 1
            /\ store' = IF cacheCtx[t] /\ ~CacheHit(t, args)
                        THEN Assign(store, args, computation(args)) ELSE store
            /\ lastCall' = [thread |-> t, args |-> args, intercepted |-> FALSE,
                            ret |-> TransparentReturn(t, args)]
            /\ UNCHANGED jobs
       ELSE /\ jobs' = [jobs EXCEPT ![parallelizer] =
                           _record(@, Repr(mapper(args)), Batcher, Wrapper,
                                   args, NoKwargs)]
            /\ lastCall' = [thread |-> t, args |-> args, intercepted |-> TRUE,
                            ret |-> CaptureReturn(args)]
            /\ UNCHANGED <<fcalls, counter, store>>
    /\ UNCHANGED <<live, backend, captured, computed, owls_parallelizer,
                   cacheCtx, runLog, exited>>
    /\ UNCHANGED backendVars

-----------------------------------------------------------------------------
(* The environment *)

\* the parameters start declares after self, in every backend
StartParameters(kind) ==
    CASE kind = "multiprocessing" -> <<"cache", "job_specs", "callback">>
      [] kind = "ipython"         -> <<"cache", "job_specs", "callback">>
      [] kind = "batch"           -> <<"cache", "job_specs", "callback">>

\* the arguments _compute passes to start on line 201
ComputeStartArguments == <<"cache", "job_specs">>

\* a call binds when every parameter gets an argument (none has a default)
Binds(parameters, arguments) == Len(arguments) = Len(parameters)

\* backend.mode(): the IPython backend inherits the abstract method
mode(kind) ==
    CASE kind = "multiprocessing" -> "notify"
      [] kind = "batch"           -> "poll"
      [] kind = "ipython"         -> "NotImplementedError"

\* how _compute waits between two prune calls, line 236: it never asks the
\* backend for its mode
MonitorWait(kind) == "sleep"

\* a _compute that calls start before it looks at the cache
_computeStartFirst(e) ==
    IF ~Binds(StartParameters(backend[e]), ComputeStartArguments)
    THEN "TypeError"
    ELSE IF ~cacheCtx[ThreadOf(e)] THEN "RuntimeError" ELSE "True"

\* _compute: how the call ends.  The cache is validated first; the call of
\* start on line 201 then fails to bind, so lines 203-236 are not reached.
_compute(e) ==
    IF ~cacheCtx[ThreadOf(e)] THEN "RuntimeError"
    ELSE IF ~Binds(StartParameters(backend[e]), ComputeStartArguments)
         THEN "TypeError"
         ELSE "True"

CapturingOnCaptured(e) == captured[e]

capturing(e) == captured[e] /\ ~computed[e]

Log(e, outcome) == runLog' = [runLog EXCEPT ![e] = Append(@, outcome)]

\* run, lines 278-285, had it entered capture like lines 286-293
RunFallbackCapturing(e) ==
    /\ backend[e] = None /\ ~(captured[e] \/ computed[e])
    /\ captured' = [captured EXCEPT ![e] = TRUE]
    /\ _set_parallelizer(ThreadOf(e), e)
    /\ Log(e, "True")
    /\ UNCHANGED computed

RunFallback(e) ==
    /\ backend[e] = None /\ ~(captured[e] \/ computed[e])
    /\ captured' = [captured EXCEPT ![e] = TRUE]
    /\ computed' = [computed EXCEPT ![e] = TRUE]
    /\ Log(e, "True")
    /\ UNCHANGED owls_parallelizer

RunCapture(e) ==
    /\ ~(backend[e] = None /\ ~(captured[e] \/ computed[e]))
    /\ ~captured[e]
    /\ captured' = [captured EXCEPT ![e] = TRUE]
    /\ _set_parallelizer(ThreadOf(e), e)
    /\ Log(e, "True")
    /\ UNCHANGED computed

\* run, lines 294-303, had it left the parallelizer set
RunComputeKeepingMarker(e) ==
    /\ ~(backend[e] = None /\ ~(captured[e] \/ computed[e]))
    /\ captured[e] /\ ~computed[e]
    /\ computed' = [computed EXCEPT ![e] = TRUE]
    /\ Log(e, _compute(e))
    /\ UNCHANGED <<captured, owls_parallelizer>>

\* run, lines 294-303, had it set _computed only after _compute returned
RunComputeFlagAfter(e) ==
    /\ ~(backend[e] = None /\ ~(captured[e] \/ computed[e]))
    /\ captured[e] /\ ~computed[e]
    /\ computed' = [computed EXCEPT ![e] = (_compute(e) = "True")]
    /\ _set_parallelizer(ThreadOf(e), None)
    /\ Log(e, _compute(e))
    /\ UNCHANGED captured

RunCompute(e) ==
    /\ ~(backend[e] = None /\ ~(captured[e] \/ computed[e]))
    /\ captured[e] /\ ~computed[e]
    /\ computed' = [computed EXCEPT ![e] = TRUE]
    /\ _set_parallelizer(ThreadOf(e), None)
    /\ Log(e, _compute(e))
    /\ UNCHANGED captured

RunDone(e) ==
    /\ ~(backend[e] = None /\ ~(captured[e] \/ computed[e]))
    /\ captured[e] /\ computed[e]
    /\ Log(e, "False")
    /\ UNCHANGED <<captured, computed, owls_parallelizer>>

\* the body of the while loop over run() raises or breaks: the loop is left
\* while run() last returned True, and run() is not called again
LoopExit(e) ==
    /\ e \in live
    /\ ~exited[e]
    /\ runLog[e] # <<>> /\ runLog[e][Len(runLog[e])] = "True"
    /\ exited' = [exited EXCEPT ![e] = TRUE]
    /\ UNCHANGED <<live, backend, captured, computed, jobs, owls_parallelizer,
                   cacheCtx, store, counter, fcalls, ncalls, lastCall, runLog>>
    /\ UNCHANGED backendVars

run(e) ==
    /\ e \in live
    /\ ~exited[e]
    /\ Len(runLog[e]) < MaxRuns
    /\ \/ RunFallback(e)
       \/ RunCapture(e)
       \/ RunCompute(e)
       \/ RunDone(e)
    /\ UNCHANGED <<live, backend, jobs, cacheCtx, store, counter, fcalls,
                   ncalls, lastCall, exited>>
    /\ UNCHANGED backendVars

-----------------------------------------------------------------------------
(* The backends: start, the units it launches, and prune *)

ConcreteBackends == {"multiprocessing", "ipython", "batch"}

\* the sequences of at most n calls application code may have made
CallSequences(n) == UNION {[1..k -> Args] : k \in 0..n}

RECURSIVE RegistryOf(_)
\* the registry after the calls of cs were intercepted in order
RegistryOf(cs) ==
    IF cs = <<>> THEN EmptyDict
    ELSE LET args == cs[Len(cs)] IN
         _record(RegistryOf(SubSeq(cs, 1, Len(cs) - 1)),
                 Repr(mapper(args)), Batcher, Wrapper, args, NoKwargs)

\* the orders in which a dictionary with the keys S may be iterated
Orders(S) == {o \in [1..Cardinality(S) -> S] :
                 \A i, k \in DOMAIN o : i # k => o[i] # o[k]}

Range(f) == {f[i] : i \in DOMAIN f}

\* the sequence s without its i-th element
Without(s, i) == SubSeq(s, 1, i - 1) \o SubSeq(s, i + 1, Len(s))

RECURSIVE Flatten(_, _)
\* _run: for batcher, calls in job: for function, args_kwargs in calls:
\* batcher(function, args_kwargs); _batcher calls the function once per entry.
\* The calls of a job in the order a unit makes them.
Flatten(d, depth) ==
    IF DOMAIN d = {} THEN <<>>
    ELSE LET k    == CHOOSE x \in DOMAIN d : TRUE
             rest == [x \in DOMAIN d \ {k} |-> d[x]]
         IN  (IF depth > 1 THEN Flatten(d[k], depth - 1) ELSE d[k])
             \o Flatten(rest, depth)

_run(job) == Flatten(job, 2)

\* executed, with the calls cs[1..n] counted once more each
RECURSIVE Count(_, _, _)
Count(ex, cs, n) ==
    IF n = 0 THEN ex
    ELSE LET a == cs[n][1]
             before == Count(ex, cs, n - 1)
         IN  [before EXCEPT ![a] = @ + 1]

NoPrune == [pc |-> "idle", in |-> <<>>, waitOn |-> 0, todo |-> <<>>,
            out |-> <<>>, seen |-> {}, raced |-> {}, skipped |-> {}]

NoPruneYet == [ended |-> "none", in |-> <<>>, out |-> <<>>, seen |-> {},
               raced |-> {}, skipped |-> {}, raisedBy |-> 0]

\* a start that hands every unit the specification of the first key
startSameSpec(job_specs, order) ==
    /\ prune.pc = "idle"
    /\ starts' = starts + 1
    /\ LET n   == Len(units)
           new == [i \in 1..Len(order) |->
                      [key |-> order[i], job |-> job_specs[order[1]],
                       status |-> "queued", failed |-> FALSE,
                       run |-> starts + 1]]
       IN  /\ units' = units \o new
           /\ handles' = [i \in 1..Len(order) |-> n + i]
           /\ remaining' = [i \in 1..Len(order) |-> n + i]
    /\ given' = job_specs
    /\ UNCHANGED <<notifiedAt, bk, queue, prune, lastPrune, executed, notified,
                   prunes>>
    /\ UNCHANGED envVars

\* start(cache, job_specs, callback): one unit per value of job_specs, in the
\* order itervalues yields them; the handles are returned to the caller
start(job_specs, order) ==
    /\ prune.pc = "idle"
    /\ starts' = starts + 1
    /\ LET n   == Len(units)
           new == [i \in 1..Len(order) |->
                      [key |-> order[i], job |-> job_specs[order[i]],
                       status |-> "queued", failed |-> FALSE,
                       run |-> starts + 1]]
       IN  /\ units' = units \o new
           /\ handles' = [i \in 1..Len(order) |-> n + i]
           /\ remaining' = [i \in 1..Len(order) |-> n + i]
    /\ given' = job_specs
    /\ UNCHANGED <<notifiedAt, bk, queue, prune, lastPrune, executed, notified,
                   prunes>>
    /\ UNCHANGED envVars

\* a worker runs _run for unit j: p = 0 when no call raises, otherwise the
\* p-th call raises and ends the unit
UnitRun(j, p) ==
    /\ units[j].status = "queued"
    /\ LET cs == _run(units[j].job) IN
       /\ p \in 0..Len(cs)
       /\ executed' = Count(executed, cs, IF p = 0 THEN Len(cs) ELSE p)
       /\ units' = [units EXCEPT ![j].failed = (p # 0),
                                 ![j].status = IF bk = "multiprocessing"
                                               THEN "finished" ELSE "ready"]
    /\ UNCHANGED <<notifiedAt, given, bk, queue, handles, remaining, prune, lastPrune, notified,
                   starts, prunes>>
    /\ UNCHANGED envVars

\* multiprocessing: the pool calls notify(job_id) for a unit that returned,
\* before it marks the result ready: the id is queued and callback() is called
notify(j) ==
    /\ bk = "multiprocessing"
    /\ units[j].status = "finished" /\ ~units[j].failed
    /\ queue' = Append(queue, j)
    /\ notified' = notified + 1
    /\ units' = [units EXCEPT ![j].status = "notified"]
    /\ notifiedAt' = Cardinality({k \in DOMAIN units : units[k].status # "queued"})
    /\ UNCHANGED <<given, bk, handles, remaining, prune, lastPrune, executed,
                   starts, prunes>>
    /\ UNCHANGED envVars

\* multiprocessing: the pool marks the result of unit j ready; a unit that
\* raised gets no callback
UnitSetReady(j) ==
    /\ bk = "multiprocessing"
    /\ \/ units[j].status = "notified"
       \/ units[j].status = "finished" /\ units[j].failed
    /\ units' = [units EXCEPT ![j].status = "ready"]
    /\ UNCHANGED <<notifiedAt, given, bk, queue, handles, remaining, prune, lastPrune, executed,
                   notified, starts, prunes>>
    /\ UNCHANGED envVars

\* job.ready() / monitor(job_id)
ready(j) == units[j].status = "ready"

\* job.wait() has returned
WaitSkipped(j) == TRUE

WaitOver(j) == ready(j)

\* job.get() on a complete job raises what the unit raised; the batch
\* backend only asks monitor whether the job is still known to the queue
GetRaises(j) == bk # "batch" /\ units[j].failed

\* the caller calls prune(remaining)
PruneCall ==
    /\ prune.pc = "idle"
    /\ starts > 0
    /\ prunes < MaxPrunes
    /\ prunes' = prunes + 1
    /\ prune' = [NoPrune EXCEPT !.pc = IF bk = "multiprocessing"
                                       THEN "drain" ELSE "scan",
                                !.in = remaining, !.todo = remaining]
    /\ UNCHANGED <<notifiedAt, given, bk, units, queue, handles, remaining, lastPrune, executed,
                   notified, starts>>
    /\ UNCHANGED envVars

\* a drain that waits on whatever job id it takes from the queue
PruneDrainNoSkip ==
    /\ prune.pc = "drain"
    /\ IF queue = <<>>
       THEN /\ prune' = [prune EXCEPT !.pc = "scan"]
            /\ UNCHANGED queue
       ELSE LET job_id == Head(queue) IN
            /\ queue' = Tail(queue)
            /\ prune' = [prune EXCEPT
                        !.pc = "wait", !.waitOn = job_id,
                        !.seen = @ \cup {job_id},
                        !.raced = IF ready(job_id) THEN @ ELSE @ \cup {job_id}]
    /\ UNCHANGED <<notifiedAt, given, bk, units, handles, remaining, lastPrune,
                   executed, notified, starts, prunes>>
    /\ UNCHANGED envVars

\* a drain that looks the job id up with jobs[job_id] and so raises on an
\* id that is not in its input
PruneDrainKeyError ==
    /\ prune.pc = "drain"
    /\ IF queue = <<>>
       THEN /\ prune' = [prune EXCEPT !.pc = "scan"]
            /\ UNCHANGED <<queue, lastPrune>>
       ELSE LET job_id == Head(queue) IN
            /\ queue' = Tail(queue)
            /\ IF job_id \notin Range(prune.in)
               THEN /\ lastPrune' = [ended |-> "raised", in |-> prune.in,
                                     out |-> <<>>, seen |-> prune.seen,
                                     raced |-> prune.raced,
                                     skipped |-> prune.skipped,
                                     raisedBy |-> job_id]
                    /\ prune' = NoPrune
               ELSE /\ prune' = [prune EXCEPT
                        !.pc = "wait", !.waitOn = job_id,
                        !.seen = @ \cup {job_id},
                        !.raced = IF ready(job_id) THEN @ ELSE @ \cup {job_id}]
                    /\ UNCHANGED lastPrune
    /\ UNCHANGED <<notifiedAt, given, bk, units, handles, remaining,
                   executed, notified, starts, prunes>>
    /\ UNCHANGED envVars

\* multiprocessing prune, lines 112-129: one turn of the loop over the queue
PruneDrain ==
    /\ prune.pc = "drain"
    /\ IF queue = <<>>
       THEN /\ prune' = [prune EXCEPT !.pc = "scan"]
            /\ UNCHANGED queue
       ELSE LET job_id == Head(queue) IN
            /\ queue' = Tail(queue)
            /\ IF job_id \notin Range(prune.in)
               THEN prune' = [prune EXCEPT !.skipped = @ \cup {job_id}]
               ELSE prune' = [prune EXCEPT
                        !.pc = "wait", !.waitOn = job_id,
                        !.seen = @ \cup {job_id},
                        !.raced = IF ready(job_id) THEN @ ELSE @ \cup {job_id}]
    /\ UNCHANGED <<notifiedAt, given, bk, units, handles, remaining, lastPrune, executed,
                   notified, starts, prunes>>
    /\ UNCHANGED envVars

\* multiprocessing prune, line 127: job.wait() returns
PruneWait ==
    /\ prune.pc = "wait"
    /\ WaitOver(prune.waitOn)
    /\ prune' = [prune EXCEPT !.pc = "drain", !.waitOn = 0]
    /\ UNCHANGED <<notifiedAt, given, bk, units, queue, handles, remaining, lastPrune, executed,
                   notified, starts, prunes>>
    /\ UNCHANGED envVars

\* a scan that drops the job it looks at whether it is complete or not
PruneScanDropping(i) ==
    /\ prune.pc = "scan"
    /\ i \in 1..Len(prune.todo)
    /\ prune' = [prune EXCEPT !.todo = Without(@, i)]
    /\ UNCHANGED <<notifiedAt, given, bk, units, queue, handles, remaining, lastPrune,
                   executed, notified, starts, prunes>>
    /\ UNCHANGED envVars

\* the loop over jobs: the i-th of the jobs not yet looked at is looked at
\* (a list is walked in order, a dictionary in some order)
PruneScan(i) ==
    /\ prune.pc = "scan"
    /\ i \in 1..Len(prune.todo)
    /\ bk # "multiprocessing" => i = 1
    /\ LET j == prune.todo[i] IN
       IF ready(j) /\ GetRaises(j)
       THEN /\ lastPrune' = [ended |-> "raised", in |-> prune.in,
                             out |-> <<>>, seen |-> prune.seen,
                             raced |-> prune.raced,
                             skipped |-> prune.skipped, raisedBy |-> j]
            /\ prune' = NoPrune
       ELSE /\ prune' = [prune EXCEPT
                            !.todo = Without(@, i),
                            !.out = IF ready(j) THEN @ ELSE Append(@, j)]
            /\ UNCHANGED lastPrune
    /\ UNCHANGED <<notifiedAt, given, bk, units, queue, handles, remaining, executed, notified,
                   starts, prunes>>
    /\ UNCHANGED envVars

\* prune returns its result, which the caller keeps for the next call
PruneReturn ==
    /\ prune.pc = "scan"
    /\ prune.todo = <<>>
    /\ lastPrune' = [ended |-> "returned", in |-> prune.in, out |-> prune.out,
                     seen |-> prune.seen, raced |-> prune.raced,
                     skipped |-> prune.skipped, raisedBy |-> 0]
    /\ remaining' = prune.out
    /\ prune' = NoPrune
    /\ UNCHANGED <<notifiedAt, given, bk, units, queue, handles, executed, notified, starts,
                   prunes>>
    /\ UNCHANGED envVars

BackendIdle ==
    /\ units = <<>>
    /\ queue = <<>>
    /\ handles = <<>>
    /\ remaining = <<>>
    /\ prune = NoPrune
    /\ lastPrune = NoPruneYet
    /\ executed = [a \in Args |-> 0]
    /\ notified = 0
    /\ starts = 0
    /\ prunes = 0
    /\ given = EmptyDict
    /\ notifiedAt = 0

-----------------------------------------------------------------------------
(* The environment driven by application code *)

NoCall == [thread |-> None, args |-> <<>>, intercepted |-> FALSE, ret |-> 0]

Init ==
    /\ live = {"E1"}
    /\ backend \in {b \in [Envs -> BackendKinds] :
                       \A e \in Envs \ {"E1"} : b[e] = None}
    /\ captured = [e \in Envs |-> FALSE]
    /\ computed = [e \in Envs |-> FALSE]
    /\ jobs = [e \in Envs |-> EmptyDict]
    /\ owls_parallelizer = [t \in Threads |-> None]
    /\ cacheCtx \in {c \in [Threads -> BOOLEAN] :
                        \A t \in Threads \ {"T1"} : ~c[t]}
    /\ store = EmptyDict
    /\ counter = 0
    /\ fcalls = 0
    /\ ncalls = 0
    /\ lastCall = NoCall
    /\ runLog = [e \in Envs |-> <<>>]
    /\ exited = [e \in Envs |-> FALSE]
    /\ bk = None
    /\ BackendIdle

Next ==
    \/ \E e \in Envs : run(e)
    \/ \E e \in Envs : LoopExit(e)
    \/ \E e \in live : \E args \in Args : wrapper(ThreadOf(e), args)

Spec == Init /\ [][Next]_vars

-----------------------------------------------------------------------------
(* Two environments, each driven by application code on its own thread *)

TwoThreadInit ==
    /\ live = {"E1", "E2"}
    /\ backend \in [Envs -> {None, "multiprocessing"}]
    /\ captured = [e \in Envs |-> FALSE]
    /\ computed = [e \in Envs |-> FALSE]
    /\ jobs = [e \in Envs |-> EmptyDict]
    /\ owls_parallelizer = [t \in Threads |-> None]
    /\ cacheCtx \in [Threads -> BOOLEAN]
    /\ store = EmptyDict
    /\ counter = 0
    /\ fcalls = 0
    /\ ncalls = 0
    /\ lastCall = NoCall
    /\ runLog = [e \in Envs |-> <<>>]
    /\ exited = [e \in Envs |-> FALSE]
    /\ bk = None
    /\ BackendIdle

TwoThreadSpec == TwoThreadInit /\ [][Next]_vars

-----------------------------------------------------------------------------
(* A backend driven directly through one dispatch run: the caller calls    *)
(* start once, with all its arguments, and then prune again and again.     *)

BackendInit ==
    /\ live = {}
    /\ backend = [e \in Envs |-> None]
    /\ captured = [e \in Envs |-> FALSE]
    /\ computed = [e \in Envs |-> FALSE]
    /\ jobs = [e \in Envs |-> EmptyDict]
    /\ owls_parallelizer = [t \in Threads |-> None]
    /\ cacheCtx = [t \in Threads |-> t = "T1"]
    /\ store = EmptyDict
    /\ counter = 0
    /\ fcalls = 0
    /\ ncalls = 0
    /\ lastCall = NoCall
    /\ runLog = [e \in Envs |-> <<>>]
    /\ exited = [e \in Envs |-> FALSE]
    /\ bk \in ConcreteBackends
    /\ BackendIdle

BackendNext ==
    \/ /\ starts = 0
       /\ \E cs \in CallSequences(MaxSpecCalls) :
             LET job_specs == _dict_convert(RegistryOf(cs), 3) IN
             \E order \in Orders(DOMAIN job_specs) : start(job_specs, order)
    \/ \E j \in DOMAIN units : \E p \in 0..MaxSpecCalls : UnitRun(j, p)
    \/ \E j \in DOMAIN units : notify(j)
    \/ \E j \in DOMAIN units : UnitSetReady(j)
    \/ PruneCall
    \/ PruneDrain
    \/ PruneWait
    \/ \E i \in 1..Len(prune.todo) : PruneScan(i)
    \/ PruneReturn

BackendSpec == BackendInit /\ [][BackendNext]_vars

\* the pool's result handler goes on from the callback to marking the result
\* ready, and a wait on a ready result returns
FairBackendSpec ==
    /\ BackendSpec
    /\ WF_vars(\E j \in DOMAIN units : UnitSetReady(j))
    /\ WF_vars(PruneWait)

-----------------------------------------------------------------------------
(* One backend instance serving an earlier and a later dispatch run: the   *)
(* caller starts the later run once the earlier one is over, that is, once *)
(* a prune call has raised or has returned nothing outstanding.            *)

\* the calls captured for a run: one unit, or two units (a run that follows
\* a run of two units has one)
ReuseCalls == {<<<<1, 2>>>>, <<<<1, 2>>, <<3, 4>>>>}

\* the monitoring loop of the run has ended
RunOver ==
    /\ prune.pc = "idle"
    /\ \/ lastPrune.ended = "raised"
       \/ lastPrune.ended = "returned" /\ remaining = <<>>

ReuseNext ==
    \/ /\ starts = 0 \/ (starts = 1 /\ RunOver)
       /\ \E cs \in {c \in ReuseCalls : Len(units) = 2 => Len(c) = 1} :
             LET job_specs == _dict_convert(RegistryOf(cs), 3) IN
             \E order \in Orders(DOMAIN job_specs) : start(job_specs, order)
    \/ \E j \in DOMAIN units : \E p \in 0..MaxSpecCalls : UnitRun(j, p)
    \/ \E j \in DOMAIN units : notify(j)
    \/ \E j \in DOMAIN units : UnitSetReady(j)
    \/ PruneCall
    \/ PruneDrain
    \/ PruneWait
    \/ \E i \in 1..Len(prune.todo) : PruneScan(i)
    \/ PruneReturn

ReuseSpec == BackendInit /\ [][ReuseNext]_vars

-----------------------------------------------------------------------------
(* Claims about the environment, checked under Spec *)

\* the outcome the documentation of run() gives for its i-th call
DocumentedOutcome(kind, i) ==
    IF kind = None THEN (IF i = 1 THEN "True" ELSE "False")
                   ELSE (IF i <= 2 THEN "True" ELSE "False")

\* C1: for one environment whose thread is caching into a persistent cache,
\* the successive run() calls return True, True, then False forever with a
\* backend, and True, then False forever with backend None.
C1_RunSequence ==
    \A e \in live :
        cacheCtx[ThreadOf(e)] =>
            \A i \in 1..Len(runLog[e]) :
                runLog[e][i] = DocumentedOutcome(backend[e], i)

\* a step that is a wrapper call on thread t
IsCall(t) == ncalls' = ncalls + 1 /\ lastCall'.thread = t

\* C2: a wrapper call made on a thread whose active capturing context is an
\* environment in state Captured does not invoke the target (neither the
\* number of target invocations nor the execution counter changes) and
\* returns default_generator(args).
C2_NoLocalExecutionDuringCapture ==
    [][\A t \in Threads :
          (/\ IsCall(t)
           /\ owls_parallelizer[t] # None
           /\ capturing(owls_parallelizer[t]))
          => (/\ fcalls' = fcalls
              /\ counter' = counter
              /\ lastCall'.ret = default_generator(lastCall'.args))]_vars

C2_Witness ==
    /\ capturing("E1")
    /\ owls_parallelizer["T1"] = "E1"
    /\ ncalls >= 2
    /\ lastCall.intercepted
    /\ lastCall.ret = 0
    /\ fcalls = 0

\* C9: capturing() is true exactly after the first run() call of an
\* environment with a backend and before its second; it is false before the
\* first call, from the second call on, and always with backend None.
C9_CapturingExactlyWhileCaptured ==
    \A e \in live :
        capturing(e) <=> (backend[e] # None /\ Len(runLog[e]) = 1)

C9_Witness ==
    /\ capturing("E1")
    /\ runLog["E1"] = <<"True">>
    /\ ncalls >= 1

\* C10: a wrapper call made on a thread with no active capturing context
\* invokes the target exactly once, returns the target's result a + b, and
\* changes the job registry of no environment.
C10_TransparentCall ==
    [][\A t \in Threads :
          (IsCall(t) /\ owls_parallelizer[t] = None)
          => (/\ fcalls' = fcalls + 1
              /\ lastCall'.ret = lastCall'.args[1] + lastCall'.args[2]
              /\ jobs' = jobs)]_vars

\* a transparent call made after the capture pass recorded something
C10_Witness ==
    /\ ~lastCall.intercepted
    /\ lastCall.thread = "T1"
    /\ lastCall.ret = 5
    /\ jobs["E1"] # EmptyDict
    /\ owls_parallelizer["T1"] = None
    /\ Len(runLog["E1"]) >= 2

C11_CounterRaisedByEveryCall ==
    \A e \in live : backend[e] = None => counter = ncalls

\* C11, amended: with backend None the first run() call moves the
\* environment directly to Done and the capture marker is never set; every
\* parallelized call invokes the target f exactly once, returns a + b and is
\* not recorded; the execution counter rises by one for a call that is not
\* answered from the persistent cache the thread is caching into (so by k
\* for k calls with distinct arguments, or outside a cache), and not at all
\* for a call whose arguments the cache already holds.
C11_FallbackExecutesLocally ==
    /\ [](\A e \in live : backend[e] = None =>
              /\ owls_parallelizer[ThreadOf(e)] = None
              /\ jobs[e] = EmptyDict
              /\ Len(runLog[e]) >= 1 => captured[e] /\ computed[e]
              /\ \A i \in 1..Len(runLog[e]) :
                    runLog[e][i] = (IF i = 1 THEN "True" ELSE "False"))
    /\ [][\A e \in live :
            (backend[e] = None /\ IsCall(ThreadOf(e)))
            => (/\ fcalls' = fcalls + 1
                /\ lastCall'.ret = lastCall'.args[1] + lastCall'.args[2]
                /\ counter' = counter +
                      (IF cacheCtx[ThreadOf(e)] /\ lastCall'.args \in DOMAIN store
                       THEN 0 ELSE 1))]_vars

\* three calls with distinct arguments were made around the single pass of
\* the loop, and the counter stands at three
C11_Witness ==
    /\ backend["E1"] = None
    /\ runLog["E1"] = <<"True", "False">>
    /\ owls_parallelizer["T1"] = None
    /\ ncalls = 3
    /\ counter = 3
    /\ Cardinality(DOMAIN store) = 3

\* the calls recorded under a top-level key of a registry, as a set
CallsUnder(j, key) ==
    UNION {UNION {Range(j[key][b][f]) : f \in DOMAIN j[key][b]} :
              b \in DOMAIN j[key]}

\* C12: in every job registry, each recorded call lies under the top-level
\* key that is the repr of its mapper value, so two recorded calls share a
\* key exactly when their normalized routing keys are equal; and every
\* intercepted call is held exactly once (the registries hold as many
\* entries as calls were intercepted).
C12_GroupedByRoutingKey ==
    /\ \A e \in Envs : \A key \in DOMAIN jobs[e] :
          \A call \in CallsUnder(jobs[e], key) : key = Repr(mapper(call[1]))
    /\ \A e \in Envs : \A k1, k2 \in DOMAIN jobs[e] :
          \A c1 \in CallsUnder(jobs[e], k1) : \A c2 \in CallsUnder(jobs[e], k2) :
             (k1 = k2) <=> (Repr(mapper(c1[1])) = Repr(mapper(c2[1])))
    /\ RegistrySize(jobs["E1"]) + RegistrySize(jobs["E2"]) = ncalls - fcalls

\* two different calls share the group "1" and a third lies in group "3"
C12_Witness ==
    /\ DOMAIN jobs["E1"] = {"1", "3"}
    /\ CallsUnder(jobs["E1"], "1") = {<<<<1, 2>>, NoKwargs>>, <<<<1, 4>>, NoKwargs>>}
    /\ CallsUnder(jobs["E1"], "3") = {<<<<3, 4>>, NoKwargs>>}

\* C14: an environment with a backend whose thread is not caching into a
\* persistent cache fails with the configuration error (RuntimeError) on
\* the run() call that would begin capture, and every run() call of it
\* leaves the state as it found it: the flags stay False, the thread's
\* capture marker stays unset, no call is recorded and no unit is launched.
C14_MissingCacheFailsAtCaptureBegin ==
    \A e \in live :
        (backend[e] # None /\ ~cacheCtx[ThreadOf(e)]) =>
            /\ \A i \in 1..Len(runLog[e]) : runLog[e][i] = "RuntimeError"
            /\ ~captured[e] /\ ~computed[e]
            /\ owls_parallelizer[ThreadOf(e)] = None
            /\ jobs[e] = EmptyDict
            /\ units = <<>>

\* what the i-th run() call of environment e returns when e runs alone: a
\* function of its own backend and its own thread's cache only
AloneOutcome(e, i) ==
    IF backend[e] = None THEN (IF i = 1 THEN "True" ELSE "False")
    ELSE IF i = 1 THEN "True"
    ELSE IF i = 2 THEN _compute(e)
    ELSE "False"

\* a step that is a run() call of environment e
IsRun(e) == Len(runLog'[e]) = Len(runLog[e]) + 1

\* C18: with two environments driven on two threads, the capture marker of
\* a thread is unset or that thread's own environment; a call on a thread
\* is intercepted exactly when that thread's marker is set and is then
\* recorded, once, into that thread's environment and into no other; a
\* run() call of one environment changes neither the other thread's marker
\* nor the other environment's flags, registry or outcomes; and the
\* outcomes of each environment's run() calls are those it has alone.
C18_ThreadsDoNotInterfere ==
    /\ [](\A t \in Threads :
            owls_parallelizer[t] = None
            \/ (owls_parallelizer[t] \in live /\ ThreadOf(owls_parallelizer[t]) = t))
    /\ [][\A t \in Threads :
            IsCall(t) =>
                /\ lastCall'.intercepted <=> (owls_parallelizer[t] # None)
                /\ \A e \in Envs :
                      IF e = owls_parallelizer[t]
                      THEN /\ RegistrySize(jobs'[e]) = RegistrySize(jobs[e]) + 1
                           /\ RegistryCount(jobs'[e], Repr(mapper(lastCall'.args)),
                                            lastCall'.args)
                              = RegistryCount(jobs[e], Repr(mapper(lastCall'.args)),
                                              lastCall'.args) + 1
                      ELSE jobs'[e] = jobs[e]
                /\ owls_parallelizer' = owls_parallelizer]_vars
    /\ [][\A e \in live :
            IsRun(e) =>
                \A o \in Envs \ {e} :
                    /\ owls_parallelizer'[ThreadOf(o)] = owls_parallelizer[ThreadOf(o)]
                    /\ captured'[o] = captured[o] /\ computed'[o] = computed[o]
                    /\ jobs'[o] = jobs[o] /\ runLog'[o] = runLog[o]]_vars
    /\ [](\A e \in live : \A i \in 1..Len(runLog[e]) :
            runLog[e][i] = AloneOutcome(e, i))

\* E1 is capturing and has recorded a call; E2 has left capture with a
\* different call recorded; the latest call, on E2's thread, ran locally
C18_Witness ==
    /\ live = {"E1", "E2"}
    /\ capturing("E1") /\ owls_parallelizer["T1"] = "E1"
    /\ Len(runLog["E2"]) >= 2 /\ owls_parallelizer["T2"] = None
    /\ jobs["E1"] # EmptyDict /\ jobs["E2"] # EmptyDict
    /\ jobs["E1"] # jobs["E2"]
    /\ lastCall.thread = "T2" /\ ~lastCall.intercepted

\* the run() calls of e so far that went into _compute (and so to the call
\* of backend.start): those that did not end as a plain True or False,
\* and the second call of an environment with a backend
ComputeCalls(e) ==
    {i \in 1..Len(runLog[e]) :
        \/ runLog[e][i] \notin {"True", "False"}
        \/ backend[e] # None /\ i = 2}

\* C19: the flags of an environment never fall back and _computed is never
\* set without _captured; the Captured state is entered by the first run()
\* call only; at most one run() call goes into _compute, so backend.start
\* is called at most once, and every run() call made once _computed is set,
\* also after a run that raised, returns False and changes nothing.
C19_StateOnlyMovesForward ==
    /\ [](\A e \in live :
            /\ computed[e] => captured[e]
            /\ Cardinality(ComputeCalls(e)) <= 1
            /\ starts <= 1)
    /\ [][\A e \in live :
            /\ captured[e] => captured'[e]
            /\ computed[e] => computed'[e]
            /\ (capturing(e)' /\ ~capturing(e)) => runLog[e] = <<>>
            /\ (IsRun(e) /\ computed[e]) =>
                  /\ runLog'[e] = Append(runLog[e], "False")
                  /\ UNCHANGED <<captured, computed, owls_parallelizer, jobs,
                                 backendVars>>]_vars

\* the dispatch run failed at the second run() call and two later calls
\* returned False
C19_Witness ==
    /\ runLog["E1"] = <<"True", "TypeError", "False", "False">>
    /\ captured["E1"] /\ computed["E1"]
    /\ jobs["E1"] # EmptyDict

\* C20: when every unit the backend started has completed without
\* raising, the Captured->Computed call of run() of an environment with a
\* backend, made inside a cached context, ends by returning True: once
\* that call is over with no unit outstanding or failed, its outcome is
\* True.
C20_ComputeCallReturnsTrue ==
    \A e \in live :
        (/\ backend[e] # None
         /\ cacheCtx[ThreadOf(e)]
         /\ computed[e]
         /\ \A j \in DOMAIN units : units[j].status = "ready" /\ ~units[j].failed)
        => (Len(runLog[e]) >= 2 /\ runLog[e][2] = "True")

\* C21: once an environment with a backend has made its Captured->Computed
\* call inside a cached context, the call handed start a callback and the
\* monitoring loop waits on the wake-up signal if the backend's mode is
\* 'notify', and the loop sleeps the monitor interval if it is 'poll'.
C21_DisciplineFollowsMode ==
    \A e \in live :
        (backend[e] # None /\ cacheCtx[ThreadOf(e)] /\ computed[e]) =>
            /\ mode(backend[e]) = "notify" =>
                  /\ "callback" \in Range(ComputeStartArguments)
                  /\ MonitorWait(backend[e]) = "signal"
            /\ mode(backend[e]) = "poll" => MonitorWait(backend[e]) = "sleep"

\* C23: with one environment per thread, the capture marker of the thread
\* is environment E exactly while E is Captured (_captured and not
\* _computed) and is unset otherwise, in particular once E is Done; the
\* marker changes only in a run() call of E: it is set by the call that
\* takes E from NotCaptured to Captured and cleared by the call that takes
\* E from Captured to Computed.
C23_MarkerExactlyWhileCaptured ==
    /\ [](\A e \in live :
            /\ (owls_parallelizer[ThreadOf(e)] = e) <=> capturing(e)
            /\ ~capturing(e) => owls_parallelizer[ThreadOf(e)] = None)
    /\ [][\A e \in live :
            owls_parallelizer'[ThreadOf(e)] # owls_parallelizer[ThreadOf(e)] =>
                /\ IsRun(e)
                /\ \/ /\ ~captured[e] /\ ~computed[e]
                      /\ capturing(e)'
                      /\ owls_parallelizer'[ThreadOf(e)] = e
                   \/ /\ capturing(e)
                      /\ computed'[e]
                      /\ owls_parallelizer'[ThreadOf(e)] = None]_vars

\* E1 is Captured with a call recorded while E2, which was Captured
\* before, is Done
C23_Witness ==
    /\ capturing("E1") /\ owls_parallelizer["T1"] = "E1"
    /\ lastCall.thread = "T1" /\ lastCall.intercepted
    /\ backend["E2"] # None
    /\ Len(runLog["E2"]) >= 3
    /\ computed["E2"] /\ owls_parallelizer["T2"] = None

\* the driving loop of e has ended: run() returned False or raised, or the
\* body left the loop
LoopEnded(e) ==
    \/ exited[e]
    \/ runLog[e] # <<>> /\ runLog[e][Len(runLog[e])] # "True"

\* C24: once the loop that drives an environment has ended, in whatever
\* way, the environment is not the capture marker of its thread, so that
\* no later call on the thread is intercepted by it.
C24_MarkerClearedWhenLoopEnds ==
    \A e \in live : LoopEnded(e) => owls_parallelizer[ThreadOf(e)] # e

\* C25: the run() call that takes an environment from Captured to Computed
\* clears the thread's marker and leaves the registry as the capture pass
\* left it; from then on no step changes the registry, whatever calls are
\* made on the thread; and the specification _dict_convert builds from a
\* registry for backend.start is equal to that registry.
C25_RegistryFrozenAfterCompute ==
    /\ [][\A e \in live :
            /\ computed[e] => jobs'[e] = jobs[e]
            /\ (IsRun(e) /\ capturing(e)) =>
                  /\ owls_parallelizer'[ThreadOf(e)] = None
                  /\ jobs'[e] = jobs[e]]_vars
    /\ [](\A e \in live : _dict_convert(jobs[e], 3) = jobs[e])

\* two calls were captured, the compute call was made, and a third call
\* made in the pass after it ran locally and left the registry at two
C25_Witness ==
    /\ backend["E1"] # None
    /\ cacheCtx["T1"]
    /\ computed["E1"]
    /\ Len(runLog["E1"]) = 2
    /\ RegistrySize(jobs["E1"]) = 2
    /\ ncalls = 3
    /\ lastCall.thread = "T1" /\ ~lastCall.intercepted

\* the list a registry holds at [key][batcher][function], empty when a
\* group on the way is absent
ListAt(j, key, batcher, function) ==
    IF key \in DOMAIN j /\ batcher \in DOMAIN j[key]
          /\ function \in DOMAIN j[key][batcher]
    THEN j[key][batcher][function] ELSE <<>>

\* C26: a call intercepted for environment e leaves the registry of e with
\* the groups it had plus those on the way to [key][batcher][wrapper],
\* where key is the repr of the call's mapper value; the list there is the
\* list before with (args, kwargs) appended at its end, and every other
\* list is as before; so the registry holds as many entries as calls were
\* intercepted.
C26_RecordAppendsOneEntry ==
    /\ [][\A t \in Threads :
            (IsCall(t) /\ owls_parallelizer[t] # None) =>
                LET e    == owls_parallelizer[t]
                    args == lastCall'.args
                    key  == Repr(mapper(args))
                IN  /\ DOMAIN jobs'[e] = DOMAIN jobs[e] \cup {key}
                    /\ DOMAIN jobs'[e][key] =
                          (IF key \in DOMAIN jobs[e] THEN DOMAIN jobs[e][key]
                                                     ELSE {}) \cup {Batcher}
                    /\ ListAt(jobs'[e], key, Batcher, Wrapper) =
                          Append(ListAt(jobs[e], key, Batcher, Wrapper),
                                 <<args, NoKwargs>>)
                    /\ \A k \in DOMAIN jobs[e] \ {key} :
                          jobs'[e][k] = jobs[e][k]
                    /\ RegistrySize(jobs'[e]) = RegistrySize(jobs[e]) + 1]_vars
    /\ [](RegistrySize(jobs["E1"]) + RegistrySize(jobs["E2"]) = ncalls - fcalls)

\* three calls were intercepted in the order (1, 2), (3, 4), (1, 4): the
\* list of key "1" holds its two calls in call order
C26_Witness ==
    /\ ListAt(jobs["E1"], "1", Batcher, Wrapper) =
          <<<<<<1, 2>>, NoKwargs>>, <<<<1, 4>>, NoKwargs>>>>
    /\ ListAt(jobs["E1"], "3", Batcher, Wrapper) = <<<<<<3, 4>>, NoKwargs>>>>
    /\ lastCall.args = <<1, 4>> /\ lastCall.intercepted

\* C27: an environment with a backend whose capture pass recorded no call
\* has, once its Captured->Computed call inside a cached context is over,
\* True as the outcome of that call.
C27_EmptyRegistryComputeReturnsTrue ==
    \A e \in live :
        (/\ backend[e] # None
         /\ cacheCtx[ThreadOf(e)]
         /\ computed[e]
         /\ jobs[e] = EmptyDict)
        => (Len(runLog[e]) >= 2 /\ runLog[e][2] = "True")

\* C28: the Captured->Computed call of an environment with a backend whose
\* thread is not caching into a persistent cache ends with the
\* configuration error (RuntimeError), not with an outcome of the start
\* call; no start call has been made, no unit exists and no recorded call
\* has been executed by a backend.
C28_MissingCacheRaisesBeforeStart ==
    \A e \in live :
        (backend[e] # None /\ ~cacheCtx[ThreadOf(e)] /\ computed[e]) =>
            /\ Len(runLog[e]) >= 2
            /\ runLog[e][2] = "RuntimeError"
            /\ starts = 0
            /\ units = <<>>
            /\ \A a \in Args : executed[a] = 0

\* a call was recorded outside any cached context and the compute call
\* ended with the configuration error
C28_Witness ==
    /\ backend["E1"] # None
    /\ ~cacheCtx["T1"]
    /\ runLog["E1"] = <<"True", "RuntimeError">>
    /\ jobs["E1"] # EmptyDict
    /\ units = <<>>

-----------------------------------------------------------------------------
(* Claims about the backends, checked under BackendSpec / FairBackendSpec *)

\* C13: a start call returns as many handles as its job specification has
\* top-level keys, all different, one unit for each key; the unit launched
\* for a key was given exactly that key's batcher -> function -> calls
\* sub-structure, so every call it makes has that routing key.
C13_OneUnitPerKey ==
    starts >= 1 =>
        /\ Len(handles) = Cardinality(DOMAIN given)
        /\ Cardinality(Range(handles)) = Len(handles)
        /\ Range(handles) \subseteq DOMAIN units
        /\ \A key \in DOMAIN given :
              Cardinality({j \in Range(handles) : units[j].key = key}) = 1
        /\ \A j \in Range(handles) :
              /\ units[j].key \in DOMAIN given
              /\ units[j].job = given[units[j].key]
              /\ \A call \in Range(_run(units[j].job)) :
                    Repr(mapper(call[1])) = units[j].key

\* two calls with different routing keys gave two units with different jobs
C13_Witness ==
    /\ starts = 1
    /\ DOMAIN given = {"1", "3"}
    /\ Len(handles) = 2
    /\ units[handles[1]].job # units[handles[2]].job
    /\ units[handles[1]].job = given[units[handles[1]].key]

\* the handles of a collection
Handles(c) == Range(c)

\* C15: while a prune call runs, the collection it was given stays as it
\* was; the result it builds holds only handles of the input, each once,
\* and every handle of the input it has looked at and left out is complete;
\* a handle enters the result only while it is not complete; so a prune
\* that returns normally returns a subset of its input that lacks only
\* complete handles.
C15_PruneReturnsIncompleteSubset ==
    /\ [](prune.pc # "idle" =>
            /\ remaining = prune.in
            /\ Handles(prune.out) \subseteq Handles(prune.in)
            /\ Cardinality(Handles(prune.out)) = Len(prune.out)
            /\ Handles(prune.out) \cap Handles(prune.todo) = {}
            /\ \A j \in Handles(prune.in) \ (Handles(prune.out) \cup Handles(prune.todo)) :
                  units[j].status = "ready")
    /\ [][\A j \in Handles(prune'.out) \ Handles(prune.out) :
            units[j].status # "ready"]_vars
    /\ [](lastPrune.ended = "returned" =>
            /\ Handles(lastPrune.out) \subseteq Handles(lastPrune.in)
            /\ \A j \in Handles(lastPrune.in) \ Handles(lastPrune.out) :
                  units[j].status = "ready")

\* a prune of two handles returned the one that was not complete, and the
\* caller holds that result
C15_Witness ==
    /\ lastPrune.ended = "returned"
    /\ Len(lastPrune.in) = 2
    /\ Len(lastPrune.out) = 1
    /\ remaining = lastPrune.out
    /\ \E j \in Handles(lastPrune.in) : units[j].status = "ready"
    /\ \E j \in Handles(lastPrune.out) : units[j].status = "queued"

\* C16: in the multiprocessing backend (mode 'notify'), once every unit of
\* a run has returned or raised and the pool has nothing left to deliver,
\* the callback given to start has been called at a moment when all units
\* of the run had already completed: there was a call after the last unit.
C16_NotifiedAfterLastUnit ==
    (/\ bk = "multiprocessing"
     /\ units # <<>>
     /\ \A j \in DOMAIN units : units[j].status = "ready")
    => notifiedAt = Len(units)

\* C6: for every concrete backend, a prune call that returns normally has
\* dropped no handle of its input whose unit raised: a unit that failed is
\* never reported as plain completion.
C6_PruneReportsUnitFailure ==
    lastPrune.ended = "returned" =>
        \A j \in Range(lastPrune.in) \ Range(lastPrune.out) : ~units[j].failed

\* the notifications a multiprocessing prune has taken from the queue for
\* handles of its input have all been waited for
NotifiedAreReady ==
    /\ prune.pc \in {"drain", "scan"} => \A j \in prune.seen : ready(j)
    /\ prune.pc = "wait" => \A j \in prune.seen \ {prune.waitOn} : ready(j)
    /\ lastPrune.ended = "returned" =>
           lastPrune.seen \cap Range(lastPrune.out) = {}

\* C8: in the multiprocessing backend, a prune call that takes from the queue
\* the notification of a unit of its input blocks on that unit until it is
\* ready and does not return it as outstanding, also when the callback fired
\* before the result was marked ready; and the wait always ends.
C8_NotifyRaceSafety ==
    /\ [](bk = "multiprocessing" => NotifiedAreReady)
    /\ (prune.pc = "wait") ~> (prune.pc # "wait")

\* a prune call took the notification of a unit not yet ready, and returned
C8_Witness ==
    /\ bk = "multiprocessing"
    /\ lastPrune.ended = "returned"
    /\ lastPrune.raced # {}
    /\ lastPrune.raced \cap Range(lastPrune.out) = {}

\* unit j was launched by the latest start call
ThisRun(j) == units[j].run = starts

\* C17: when one backend instance serves a later dispatch run, start
\* returns one handle per key of that run's specification, all of units of
\* that run; a prune call of that run waits on, looks at and returns only
\* units of that run, leaves out only units that are complete, and raises
\* only what a unit of that run raised; job ids of the earlier run that it
\* takes from the notification queue are passed over.
C17_LaterRunIndependent ==
    /\ [](starts >= 1 =>
            /\ Len(handles) = Cardinality(DOMAIN given)
            /\ \A j \in Handles(handles) : ThisRun(j) /\ units[j].job = given[units[j].key]
            /\ Handles(remaining) \subseteq Handles(handles)
            /\ \A j \in Handles(handles) \ Handles(remaining) :
                  units[j].status = "ready")
    /\ [](prune.pc # "idle" =>
            /\ prune.in = remaining
            /\ prune.waitOn # 0 => ThisRun(prune.waitOn)
            /\ \A j \in prune.seen \cup Handles(prune.out) : ThisRun(j)
            /\ \A j \in prune.skipped : j \notin Handles(prune.in)
            /\ \A j \in Handles(prune.in) \ (Handles(prune.out) \cup Handles(prune.todo)) :
                  units[j].status = "ready")
    /\ [][lastPrune' # lastPrune =>
            /\ Handles(lastPrune'.out) \subseteq Handles(handles)
            /\ lastPrune'.ended = "raised" =>
                  /\ ThisRun(lastPrune'.raisedBy)
                  /\ units[lastPrune'.raisedBy].failed]_vars

\* the earlier run failed while one of its units was still running; that
\* unit's notification was taken from the queue and passed over by a prune
\* call of the later run, which returned with the later run's unit complete
C17_Witness ==
    /\ bk = "multiprocessing"
    /\ starts = 2
    /\ lastPrune.ended = "returned"
    /\ lastPrune.in # <<>>
    /\ \A j \in Handles(lastPrune.in) : ThisRun(j)
    /\ lastPrune.out = <<>>
    /\ \E j \in lastPrune.skipped : units[j].run = 1
    /\ \E j \in DOMAIN units : units[j].run = 1 /\ units[j].failed

\* the next job id in the queue is not a handle of the prune call draining it
StaleNotification ==
    /\ bk = "multiprocessing"
    /\ prune.pc = "drain"
    /\ queue # <<>>
    /\ Head(queue) \notin Handles(prune.in)

\* C22: in the multiprocessing backend, a prune call that takes from the
\* queue a job id that is not in the collection it was given goes on
\* draining: it does not wait, does not raise, and its result so far and
\* the handles it has yet to look at stay as they are; a prune call that
\* returns after passing over such ids returns a subset of its input that
\* holds none of them and lacks only complete handles.
C22_StaleNotificationSkipped ==
    /\ [][StaleNotification =>
            /\ prune'.pc = "drain"
            /\ prune'.waitOn = 0
            /\ prune'.in = prune.in
            /\ prune'.todo = prune.todo
            /\ prune'.out = prune.out
            /\ lastPrune' = lastPrune
            /\ remaining' = remaining]_vars
    /\ []((bk = "multiprocessing" /\ lastPrune.ended = "returned") =>
            /\ lastPrune.skipped \cap Handles(lastPrune.in) = {}
            /\ lastPrune.skipped \cap Handles(lastPrune.out) = {}
            /\ Handles(lastPrune.out) \subseteq Handles(lastPrune.in)
            /\ \A j \in Handles(lastPrune.in) \ Handles(lastPrune.out) :
                  units[j].status = "ready")

\* an earlier prune call dropped a unit whose notification came after its
\* drain; a later prune call of the same run took that notification from
\* the queue, passed it over, and returned the handle still outstanding
C22_Witness ==
    /\ bk = "multiprocessing"
    /\ starts = 1
    /\ prunes >= 2
    /\ lastPrune.ended = "returned"
    /\ lastPrune.skipped # {}
    /\ lastPrune.skipped \subseteq Handles(handles)
    /\ Len(lastPrune.in) = 1
    /\ lastPrune.out = lastPrune.in

====
